---- MODULE Spec2Model ----
(***************************************************************************)
(* State-machine model of MinIOPipeline (src/pipeline.py): the run()       *)
(* lifecycle, the watcher's dispatch of add-events, the per-file           *)
(* process_file tasks gated by an asyncio.Semaphore, and the background    *)
(* log checker that uploads and truncates the local log.                   *)
(*                                                                         *)
(* The program runs on one asyncio event loop, so a coroutine runs without *)
(* interruption from one await that suspends to the next.  Each action     *)
(* below is one such uninterrupted stretch of code.                        *)
(***************************************************************************)
EXTENDS Integers, Sequences, FiniteSets

\* ---------------------------------------------------------------- bounds
MaxK == 2          \* largest max_concurrent_files explored
MaxTasks == 3      \* process_file tasks spawned in one run
NumPaths == 2      \* distinct CSV paths in the input folder
TimeStep == 5      \* seconds by which the clock advances in one step
MaxTime == 70      \* horizon of the clock, in seconds
MaxSize == 2       \* largest file size stat() reports
MaxRows == 2       \* largest number of rows read_csv returns
MaxFileRows == 1   \* largest number of rows of the file a followed call reads
MaxOtherTasks == 1 \* process_file tasks created beside a followed call
MaxBack == 10      \* furthest the wall clock is set back before start_time, in polling intervals
MaxLate == 2       \* largest lateness of a wake-up that is recorded, in polling intervals
MaxClockSteps == 1 \* times the wall clock is set back during one wait

\* ------------------------------------------------------ program constants
SleepSeconds == 10        \* asyncio.sleep(10) of background_log_checker
log_upload_interval == 60   \* timedelta(minutes=1), in seconds
BannerLines == 4          \* the four logger.info calls opening run()
SuccessLines == 1         \* the logger.info between put_object and the truncation
age_min == 18             \* lower bound of filter_data and default of AGE_MIN
age_max == 40             \* upper bound of filter_data and default of AGE_MAX
timeout == 30             \* timeout of wait_for_file_stable, in seconds
ConfirmSeconds == 2       \* asyncio.sleep(2) before the re-read
PollsPerSecond == 2       \* asyncio.sleep(0.5) between two polls

Paths == 1..NumPaths
Changes == {"added", "modified"}

VARIABLES
    now,                    \* datetime.now(), seconds since construction
    max_concurrent_files,   \* config['max_concurrent_files'] (K)
    semaphore,              \* self.semaphore._value, the free slots
    processing_files,       \* self.processing_files
    tasks,                  \* per path, the number of pending process_file tasks at each position
    spawned,                \* number of process_file tasks created so far
    last_exit,              \* how the task that ended last left process_file
    logs_accumulated,       \* self.logs_accumulated (the dirty flag)
    last_log_upload_time,   \* self.last_log_upload_time
    runPc,                  \* position of run()
    schedPc,                \* position of background_log_checker
    sleep_until,            \* wake-up time of its asyncio.sleep(10)
    current_time,           \* local current_time of check_and_upload_logs (0 outside a flush)
    cancelled,              \* background_task.cancel() has been called
    log_empty,              \* the local log file holds no line
    log_puts,               \* successful put_object calls of pipeline.log
    log_truncations,        \* times the local log file has been truncated
    final_uploads,          \* upload_log_file calls made by run()'s finally
    age_range,              \* config['filter_conditions']['age_range'] as <<min, max>>
    wf_pc,                  \* position of the process_file call followed line by line
    elapsed,                \* time.time() - start_time when the sleep under way is due to end, in polling intervals
    clock_steps,            \* times the wall clock was set back during the wait
    last_size,              \* local last_size of wait_for_file_stable
    current_size,           \* local current_size of wait_for_file_stable
    seen,                   \* what the last two polls and the last re-read of stat() returned
    stable,                 \* what wait_for_file_stable returned to the call under way
    df,                     \* local df of the call: the frame read_csv returned
    filtered_df,            \* local filtered_df of the call: the frame filter_data returned
    temp_file,              \* the staging file in temp/
    s3_object,              \* the object uploaded under the file's key
    source_at,              \* the folder the source file is in
    error_logged,           \* the call has written an error line to the log
    tasks_cancelled,        \* asyncio.run has cancelled the process_file tasks still pending
    raised_in_flush,        \* a workflow assigned logs_accumulated while the scheduled flush was suspended in its upload
    lines_lost              \* a truncation has removed a line that no upload contained

vars == <<now, max_concurrent_files, semaphore, processing_files, tasks, spawned, last_exit,
          logs_accumulated,
          last_log_upload_time, runPc, schedPc, sleep_until, current_time,
          cancelled, log_empty, log_puts, log_truncations, final_uploads,
          age_range, wf_pc, elapsed, clock_steps, last_size, current_size, seen, stable,
          df, filtered_df, temp_file, s3_object, source_at, error_logged,
          tasks_cancelled, raised_in_flush, lines_lost>>

taskVars == <<semaphore, processing_files, tasks, spawned, last_exit>>
flushVars == <<logs_accumulated, last_log_upload_time, raised_in_flush>>
schedVars == <<schedPc, sleep_until, current_time>>
runVars == <<runPc, cancelled, final_uploads, tasks_cancelled>>
storeVars == <<log_puts, log_truncations, lines_lost>>
clockVars == <<elapsed, clock_steps>>
waitVars == <<clockVars, last_size, current_size, seen, stable>>
frameVars == <<df, filtered_df>>
fileVars == <<temp_file, s3_object, source_at>>
wfVars == <<age_range, wf_pc, waitVars, frameVars, fileVars, error_logged>>

\* Positions of a pending process_file task: suspended at `async with
\* self.semaphore` (or not yet started), in wait_for_file_stable, in
\* upload_to_minio.  The tasks are anonymous: a task is its path and its
\* position.
TaskPcs == {"waiting", "stable", "upload"}
ActivePcs == {"stable", "upload"}

\* The ways a task leaves process_file.
ExitKinds == {"duplicate", "unstable", "empty", "error", "ok", "raised",
              "cancelled"}

\* ------------------------------------------------------------ helpers
\* The local log is modelled by whether it is empty: n lines written through
\* the logger leave it non-empty when n > 0.
Logged(n) == IF n > 0 THEN FALSE ELSE log_empty

\* Mutant of Locked: the test is off by one, a slot is handed out at 0.
LockedOffByOne(s) == s < 0

\* asyncio.Semaphore.locked(): no slot is free.
Locked(s) == s = 0

\* asyncio.Semaphore.acquire() / release() on the counter.
Acquire(s) == s - 1

\* Mutant of Release: the slot is not given back.
ReleaseSkipped(s) == s

Release(s) == s + 1

\* Mutant of IsDuplicate: the membership test is dropped.
NeverDuplicate(pf, p) == FALSE

\* `if file_path in self.processing_files` of process_file.
IsDuplicate(pf, p) == p \in pf

\* `self.processing_files.add(file_path)`.
AddPath(pf, p) == pf \cup {p}

\* Mutant of Finally: the path is not removed.
FinallySkipped(pf, p) == pf

\* The finally clause of process_file: processing_files.remove(file_path).
Finally(pf, p) == pf \ {p}

\* Mutant of DuplicateReturn: the return is inside the try block and its
\* finally clause removes the path.
DuplicateReturnRemoves(pf, p) == Finally(pf, p)

\* `return` of a duplicate, before the try block: processing_files is left
\* as it is.
DuplicateReturn(pf, p) == pf

\* Mutants of FlushDue: `or` in place of `and`; `>` in place of `>=`; the
\* condition is never met.
FlushDueEither(t, last, dirty) == (t - last >= log_upload_interval) \/ dirty
FlushDueStrict(t, last, dirty) == (t - last > log_upload_interval) /\ dirty
FlushDueNever(t, last, dirty) == FALSE

\* The condition of check_and_upload_logs.
FlushDue(t, last, dirty) == (t - last >= log_upload_interval) /\ dirty

\* Mutant of FinalFlushDue: the final upload is made unconditionally.
FinalFlushAlways(dirty) == TRUE

\* `if self.logs_accumulated` in the finally clause of run().
FinalFlushDue(dirty) == dirty

\* The number of tasks of path p that hold a slot, and of all paths.
ActiveOn(p) == tasks[p].stable + tasks[p].upload

RECURSIVE SumOver(_, _)
SumOver(f, ps) ==
    IF ps = {} THEN 0
    ELSE LET p == CHOOSE q \in ps : TRUE IN f[p] + SumOver(f, ps \ {p})

ActiveCount == SumOver([p \in Paths |-> ActiveOn(p)], Paths)
WaitingCount == SumOver([p \in Paths |-> tasks[p].waiting], Paths)

\* ---------------------------------------------------------------- Init
\* No frame: what df and filtered_df hold before read_csv and filter_data.
NoFrame == [columns |-> {}, rows |-> <<>>]

\* What `seen` holds before the first stat() call.
NothingSeen == [prev |-> -1, cur |-> -1, reread |-> -1, status |-> "none"]

\* The state of a process_file call that has not been created.
NoWorkflow ==
    /\ wf_pc = "none"
    /\ elapsed = 0
    /\ clock_steps = 0
    /\ last_size = -1
    /\ current_size = -1
    /\ seen = NothingSeen
    /\ stable = "pending"
    /\ df = NoFrame
    /\ filtered_df = NoFrame
    /\ temp_file = "absent"
    /\ s3_object = "absent"
    /\ source_at = "input"
    /\ error_logged = FALSE

\* The fields of the pipeline after __init__.
Constructed ==
    /\ now = 0
    /\ max_concurrent_files \in 1..MaxK
    /\ semaphore = max_concurrent_files
    /\ processing_files = {}
    /\ tasks = [p \in Paths |-> [waiting |-> 0, stable |-> 0, upload |-> 0]]
    /\ spawned = 0
    /\ last_exit = "none"
    /\ logs_accumulated = FALSE
    /\ last_log_upload_time = 0
    /\ runPc = "start"
    /\ schedPc = "unstarted"
    /\ sleep_until = 0
    /\ current_time = 0
    /\ cancelled = FALSE
    /\ log_empty = FALSE
    /\ log_puts = 0
    /\ log_truncations = 0
    /\ final_uploads = 0
    /\ tasks_cancelled = FALSE
    /\ raised_in_flush = FALSE
    /\ lines_lost = FALSE

\* The pipeline as a whole is followed with the default filter bounds and
\* without stepping through the statements of a process_file call.
Init ==
    /\ Constructed
    /\ age_range = <<age_min, age_max>>
    /\ NoWorkflow

\* ------------------------------------------------------------- the clock
\* Time passes.  The clock is read only by check_and_upload_logs, so it is
\* advanced only while the background task is still to read it.  The task
\* may wake from asyncio.sleep at its deadline or any time later.
Advance ==
    /\ ~cancelled
    /\ runPc # "ended"
    /\ now + TimeStep <= MaxTime
    /\ now' = now + TimeStep
    /\ UNCHANGED <<max_concurrent_files, taskVars, flushVars, schedVars, runVars,
                   log_empty, storeVars>>
    /\ UNCHANGED wfVars

\* ------------------------------------------------------------------ run()
\* The finally clause of run(): cancel the background task, then upload the
\* final log if logs_accumulated.  n is the number of lines logged on the
\* way into the clause.
RunFinally(n) ==
    /\ cancelled' = TRUE
    /\ tasks_cancelled' = tasks_cancelled
    /\ IF FinalFlushDue(logs_accumulated)
       THEN /\ runPc' = "final_upload"
            /\ final_uploads' = final_uploads + 1
            /\ log_empty' = Logged(n + 1)
       ELSE /\ runPc' = "ended"
            /\ final_uploads' = final_uploads
            /\ log_empty' = Logged(n + 1)

\* Mutant of BucketFails: the result of ensure_bucket_exists is ignored.
BucketFailsIgnored(bucket) == FALSE

\* `if not self.ensure_bucket_exists(): return`
BucketFails(bucket) == ~bucket

\* run() from its first line to the first await that suspends (awatch in
\* monitor_folder) or to its return.  check_minio_connection and
\* ensure_bucket_exists call the synchronous boto3 client and never suspend.
Startup(conn, bucket, folders) ==
    /\ runPc = "start"
    /\ IF ~conn
       THEN /\ runPc' = "ended"
            /\ log_empty' = Logged(BannerLines + 1)
            /\ UNCHANGED <<schedVars, cancelled, final_uploads, tasks_cancelled>>
       ELSE IF BucketFails(bucket)
       THEN /\ runPc' = "ended"
            /\ log_empty' = Logged(BannerLines + 2 + 1)
            /\ UNCHANGED <<schedVars, cancelled, final_uploads, tasks_cancelled>>
       ELSE /\ schedPc' = "sleeping"
            /\ sleep_until' = now + SleepSeconds
            /\ current_time' = current_time
            /\ IF folders
               THEN /\ runPc' = "watching"
                    /\ log_empty' = Logged(BannerLines + 2 + 1 + 1)
                    /\ UNCHANGED <<cancelled, final_uploads, tasks_cancelled>>
               ELSE RunFinally(BannerLines + 2 + 1)
    /\ UNCHANGED <<now, max_concurrent_files, taskVars, flushVars, storeVars>>
    /\ UNCHANGED wfVars

\* The added events of a batch, one per path (awatch yields a set).
AddedPaths(batch) == {p \in Paths : <<"added", p>> \in batch}

\* Mutant of CanDispatch: handle_changes waits until a slot is free.
CanDispatchWhenFree(s) == ~Locked(s)

\* handle_changes hands process_file to asyncio.create_task and awaits
\* neither the task nor the semaphore: it runs whatever the counter is.
CanDispatch(s) == TRUE

\* monitor_folder receives a batch and handle_changes creates one task per
\* added event; it awaits nothing.
HandleChanges(batch) ==
    /\ runPc = "watching"
    /\ CanDispatch(semaphore)
    /\ batch # {}
    /\ spawned + Cardinality(AddedPaths(batch)) <= MaxTasks
    /\ spawned' = spawned + Cardinality(AddedPaths(batch))
    /\ tasks' = [p \in Paths |->
                    IF p \in AddedPaths(batch)
                    THEN [tasks[p] EXCEPT !.waiting = @ + 1]
                    ELSE tasks[p]]
    /\ log_empty' = Logged(Cardinality(AddedPaths(batch)))
    /\ UNCHANGED <<now, max_concurrent_files, semaphore, processing_files, last_exit,
                   flushVars, schedVars, runVars, storeVars>>
    /\ UNCHANGED wfVars

\* monitor_folder ends: the watcher raised ("error", logged and re-raised),
\* the event stream ended ("end") or run() was cancelled ("cancel").
StopWatching(kind) ==
    /\ runPc = "watching"
    /\ RunFinally(IF kind = "error" THEN 1 ELSE 0)
    /\ UNCHANGED <<now, max_concurrent_files, taskVars, flushVars, schedVars, storeVars>>
    /\ UNCHANGED wfVars

\* ---------------------------------------------------------- process_file
\* The exits of process_file that assign logs_accumulated = True: the end
\* of the try block and the except clause.
SetsDirty(kind) == kind \in {"ok", "error"}

\* A task leaves the `try` block from position pc: the finally clause
\* removes its path and `async with` releases the slot.  kind names the way
\* out, dirty is the value logs_accumulated is left with and n the number of
\* lines logged on the way out.
TaskExit(p, pc, kind, dirty, n) ==
    /\ tasks' = [tasks EXCEPT ![p][pc] = @ - 1]
    /\ raised_in_flush' =
            (raised_in_flush \/ (schedPc = "uploading" /\ SetsDirty(kind)))
    /\ processing_files' = Finally(processing_files, p)
    /\ semaphore' = Release(semaphore)
    /\ last_exit' = kind
    /\ logs_accumulated' = dirty
    /\ log_empty' = Logged(n)

\* `return` inside the try block (file not stable, or no rows): nothing is
\* logged and logs_accumulated is not assigned.
EarlyReturn(p, kind) == TaskExit(p, "stable", kind, logs_accumulated, 0)

\* Mutant of OnException: no except clause, the exception leaves the task
\* through the finally clause.
OnExceptionUncaught(p, pc, n) == TaskExit(p, pc, "raised", logs_accumulated, n)

\* The `except Exception` clause: the error is logged, logs_accumulated is
\* set and the task returns normally.  n counts the lines logged before the
\* exception reached the clause.
OnException(p, pc, n) == TaskExit(p, pc, "error", TRUE, n + 1)

\* The last lines of the try block: the success line, logs_accumulated.
OnSuccess(p, n) == TaskExit(p, "upload", "ok", TRUE, n + 1)

\* A task for path p takes a slot as soon as the semaphore is not locked;
\* it is resumed like any other task until asyncio.run cancels it, also in
\* the passes of the event loop between the return of run() and that
\* cancellation.
\* acquire, the duplicate check and the insertion run without suspending.
\* A duplicate returns from inside `async with`, before the try block.  The
\* others log the start line and suspend in wait_for_file_stable.
TaskStart(p) ==
    /\ ~tasks_cancelled
    /\ tasks[p].waiting > 0
    /\ ~Locked(semaphore)
    /\ IF IsDuplicate(processing_files, p)
       THEN /\ tasks' = [tasks EXCEPT ![p].waiting = @ - 1]
            /\ semaphore' = Release(Acquire(semaphore))
            /\ last_exit' = "duplicate"
            /\ processing_files' = DuplicateReturn(processing_files, p)
            /\ UNCHANGED log_empty
       ELSE /\ tasks' = [tasks EXCEPT ![p].waiting = @ - 1,
                                      ![p].stable = @ + 1]
            /\ semaphore' = Acquire(semaphore)
            /\ processing_files' = AddPath(processing_files, p)
            /\ log_empty' = Logged(1)
            /\ UNCHANGED last_exit
    /\ UNCHANGED <<now, max_concurrent_files, spawned, flushVars, schedVars, runVars,
                   storeVars>>
    /\ UNCHANGED wfVars

\* What follows wait_for_file_stable, up to the next await that suspends
\* (the upload) or to the task's exit:
\*   "unstable"  wait_for_file_stable returned False
\*   "empty"     read_csv returned no rows
\*   "error"     stat, read_csv, filter_data or save_temp_file raised
\*   "staged"    the filtered rows are staged and the upload begins
StableOutcomes == {"unstable", "empty", "error", "staged"}

TaskStable(p, res) ==
    /\ ~tasks_cancelled
    /\ tasks[p].stable > 0
    /\ CASE res = "unstable" -> EarlyReturn(p, "unstable")
         [] res = "empty" -> EarlyReturn(p, "empty")
         [] res = "error" -> OnException(p, "stable", 0)
         [] res = "staged" ->
              /\ tasks' = [tasks EXCEPT ![p].stable = @ - 1,
                                        ![p].upload = @ + 1]
              /\ UNCHANGED <<semaphore, processing_files, last_exit,
                             logs_accumulated, log_empty, raised_in_flush>>
    /\ UNCHANGED <<now, max_concurrent_files, spawned, last_log_upload_time, schedVars,
                   runVars, storeVars>>
    /\ UNCHANGED wfVars

\* What follows the upload, up to the task's exit:
\*   "upload_error"   upload_to_minio logged the error and re-raised it
\*   "unlink_error"   archived, then temp_file.unlink() raised
\*   "archive_error"  archive_source_file logged its failure and returned
\*   "ok"             uploaded, archived, staging file deleted
UploadOutcomes == {"upload_error", "unlink_error", "archive_error", "ok"}

TaskUpload(p, res) ==
    /\ ~tasks_cancelled
    /\ tasks[p].upload > 0
    /\ CASE res = "upload_error" -> OnException(p, "upload", 1)
         [] res = "unlink_error" -> OnException(p, "upload", 0)
         [] res = "archive_error" -> OnSuccess(p, 1)
         [] res = "ok" -> OnSuccess(p, 0)
    /\ UNCHANGED <<now, max_concurrent_files, spawned, last_log_upload_time, schedVars,
                   runVars, storeVars>>
    /\ UNCHANGED wfVars

\* asyncio.run(main()): the return of run() ends the main task, whose done
\* callback stops the event loop at the end of the pass it runs in; the
\* resumptions of process_file tasks due until then run as usual.  Then
\* asyncio.run cancels every task still pending, all at once.
CancelAllTasks ==
    /\ runPc = "ended"
    /\ ~tasks_cancelled
    /\ tasks_cancelled' = TRUE
    /\ UNCHANGED <<now, max_concurrent_files, taskVars, flushVars, schedVars,
                   runPc, cancelled, final_uploads, log_empty, storeVars>>
    /\ UNCHANGED wfVars

\* A task cancelled by asyncio.run resumes only to receive CancelledError.
\* CancelledError is not an Exception: the except clause is skipped, the
\* finally clause and the release of the slot are not.  A task cancelled
\* while it waits for the semaphore never takes a slot.
TaskCancel(p, pc) ==
    /\ tasks_cancelled
    /\ tasks[p][pc] > 0
    /\ IF pc = "waiting"
       THEN /\ tasks' = [tasks EXCEPT ![p].waiting = @ - 1]
            /\ last_exit' = "cancelled"
            /\ UNCHANGED <<semaphore, processing_files, logs_accumulated,
                           log_empty, raised_in_flush>>
       ELSE TaskExit(p, pc, "cancelled", logs_accumulated, 0)
    /\ UNCHANGED <<now, max_concurrent_files, spawned, last_log_upload_time, schedVars,
                   runVars, storeVars>>
    /\ UNCHANGED wfVars

\* ------------------------------------------------- upload_log_file
\* How an upload_log_file call ends:
\*   "ok"          put_object returned, the success line was logged and
\*                 open(log_path, 'w') truncated the file
\*   "put_error"   open(log_path, 'rb') or put_object raised: nothing is
\*                 stored, the error line is logged
\*   "open_error"  put_object returned and the success line was logged, then
\*                 open(log_path, 'w') raised: the object is stored, the file
\*                 is not truncated, the error line is logged
LogUploadOutcomes == {"ok", "put_error", "open_error"}

\* The final upload is awaited by run() itself, which may be cancelled while
\* it is suspended there: CancelledError is not caught by `except Exception`
\* and ends upload_log_file and run(); the store may ("cancelled_stored") or
\* may not ("cancelled") have taken the object.
FinalUploadOutcomes == LogUploadOutcomes \cup {"cancelled", "cancelled_stored"}

\* The store has taken the object.
Stored(res) == res \in {"ok", "open_error", "cancelled_stored"}

\* Mutant of Truncates: the file is truncated however the call ended.
TruncatesAlways(res) == TRUE

\* The file is truncated only at the end of the try block, after put_object
\* has returned and the truncating open has succeeded.
Truncates(res) == res = "ok"

\* The truncation removes the whole file, the success line included: that
\* line was written after put_object returned and is in no upload.
LosesLines(res) == Truncates(res) /\ SuccessLines > 0

\* ------------------------------------------ background_log_checker
\* asyncio.sleep(10) is over: check_and_upload_logs reads the clock; when a
\* flush is due it logs and suspends in put_object, otherwise the loop goes
\* back to sleep.
SchedTick ==
    /\ schedPc = "sleeping"
    /\ ~cancelled
    /\ now >= sleep_until
    /\ IF FlushDue(now, last_log_upload_time, logs_accumulated)
       THEN /\ schedPc' = "uploading"
            /\ current_time' = now
            /\ log_empty' = Logged(1)
            /\ UNCHANGED sleep_until
       ELSE /\ schedPc' = "sleeping"
            /\ sleep_until' = now + SleepSeconds
            /\ UNCHANGED <<current_time, log_empty>>
    /\ UNCHANGED <<now, max_concurrent_files, taskVars, flushVars, runVars, storeVars>>
    /\ UNCHANGED wfVars

\* put_object of the scheduled flush returns (ok) or raises; upload_log_file
\* ends, check_and_upload_logs resets its two fields and the loop sleeps.
\* The value upload_log_file returns is not used.
ResetAfterUpload(res) ==
    /\ last_log_upload_time' = current_time
    /\ logs_accumulated' = FALSE

SchedUploadDone(res) ==
    /\ schedPc = "uploading"
    /\ ~cancelled
    /\ log_empty' = Truncates(res)
    /\ log_truncations' = IF Truncates(res) THEN log_truncations + 1
                          ELSE log_truncations
    /\ log_puts' = IF Stored(res) THEN log_puts + 1 ELSE log_puts
    /\ lines_lost' = (lines_lost \/ LosesLines(res))
    /\ ResetAfterUpload(res)
    /\ raised_in_flush' = FALSE
    /\ schedPc' = "sleeping"
    /\ sleep_until' = now + SleepSeconds
    /\ current_time' = 0
    /\ UNCHANGED <<now, max_concurrent_files, taskVars, runVars>>
    /\ UNCHANGED wfVars

\* The CancelledError of background_task.cancel() arrives at the await the
\* task is suspended in; the loop breaks.  A put_object that was under way
\* may or may not have reached the store (delivered).
SchedCancelled(delivered) ==
    /\ cancelled
    /\ schedPc \in {"sleeping", "uploading"}
    /\ schedPc = "sleeping" => ~delivered
    /\ schedPc' = "stopped"
    /\ current_time' = 0
    /\ log_puts' = IF delivered THEN log_puts + 1 ELSE log_puts
    /\ raised_in_flush' = FALSE
    /\ UNCHANGED <<now, max_concurrent_files, taskVars, logs_accumulated,
                   last_log_upload_time, sleep_until, runVars, log_empty,
                   log_truncations, lines_lost>>
    /\ UNCHANGED wfVars

\* The final upload ends in one of the ways of FinalUploadOutcomes; run()
\* logs its last line (not when it was cancelled) and ends.  The line that
\* announces the final upload is in the file, which is left non-empty
\* unless it is truncated, and then the last line follows the truncation.
FinalUploadDone(res) ==
    /\ runPc = "final_upload"
    /\ log_empty' = FALSE
    /\ log_truncations' = IF Truncates(res) THEN log_truncations + 1
                          ELSE log_truncations
    /\ log_puts' = IF Stored(res) THEN log_puts + 1 ELSE log_puts
    /\ lines_lost' = (lines_lost \/ LosesLines(res))
    /\ runPc' = "ended"
    /\ UNCHANGED <<now, max_concurrent_files, taskVars, flushVars, schedVars, cancelled,
                   final_uploads, tasks_cancelled>>
    /\ UNCHANGED wfVars

\* ------------------------------------------------------------------ Next
Next ==
    \/ Advance
    \/ \E conn, bucket, folders \in BOOLEAN : Startup(conn, bucket, folders)
    \/ \E batch \in SUBSET (Changes \X Paths) : HandleChanges(batch)
    \/ \E kind \in {"error", "end", "cancel"} : StopWatching(kind)
    \/ \E p \in Paths : TaskStart(p)
    \/ \E p \in Paths, res \in StableOutcomes : TaskStable(p, res)
    \/ \E p \in Paths, res \in UploadOutcomes : TaskUpload(p, res)
    \/ CancelAllTasks
    \/ \E p \in Paths, pc \in TaskPcs : TaskCancel(p, pc)
    \/ SchedTick
    \/ \E res \in LogUploadOutcomes : SchedUploadDone(res)
    \/ \E delivered \in BOOLEAN : SchedCancelled(delivered)
    \/ \E res \in FinalUploadOutcomes : FinalUploadDone(res)

Spec == Init /\ [][Next]_vars

\* The steps of the process_file tasks of path p.
TaskStep(p) ==
    \/ TaskStart(p)
    \/ \E res \in StableOutcomes : TaskStable(p, res)
    \/ \E res \in UploadOutcomes : TaskUpload(p, res)
    \/ \E pc \in TaskPcs : TaskCancel(p, pc)

\* The steps of background_log_checker and of the uploads it and run() await.
SchedStep ==
    \/ SchedTick
    \/ \E res \in LogUploadOutcomes : SchedUploadDone(res)
    \/ \E delivered \in BOOLEAN : SchedCancelled(delivered)
    \/ \E res \in FinalUploadOutcomes : FinalUploadDone(res)

\* Time passes, asyncio.sleep(10) ends, put_object returns or raises, and
\* the event loop runs every task that is ready: every stability wait, file
\* operation and store call ends.  The watcher is not obliged to deliver
\* events, nor run() to stop.
FairSpec ==
    /\ Spec
    /\ WF_vars(Advance)
    /\ WF_vars(SchedStep)
    /\ WF_vars(CancelAllTasks)
    /\ \A p \in Paths : WF_vars(TaskStep(p))

TypeOK ==
    /\ now \in 0..MaxTime
    /\ max_concurrent_files \in 1..MaxK
    /\ semaphore \in 0..max_concurrent_files
    /\ processing_files \subseteq Paths
    /\ tasks \in [Paths -> [TaskPcs -> 0..MaxTasks]]
    /\ spawned \in 0..MaxTasks
    /\ last_exit \in ExitKinds \cup {"none"}
    /\ logs_accumulated \in BOOLEAN
    /\ runPc \in {"start", "watching", "final_upload", "ended"}
    /\ schedPc \in {"unstarted", "sleeping", "uploading", "stopped"}
    /\ cancelled \in BOOLEAN
    /\ tasks_cancelled \in BOOLEAN
    /\ log_empty \in BOOLEAN
    /\ final_uploads \in 0..1
    /\ log_puts \in Nat
    /\ log_truncations \in Nat
    /\ raised_in_flush \in BOOLEAN
    /\ lines_lost \in BOOLEAN

\* ======================================= one process_file call, line by line
\* The specification below follows one process_file call for one path
\* statement by statement, with the files it reads and writes, inside the
\* running pipeline: the clock, the background task with its flushes, the
\* end of run() and the cancellation by asyncio.run take their steps of
\* Next beside it, and so do the process_file tasks of other events, which
\* share with the call the semaphore, processing_files, logs_accumulated
\* and the log, and work on files of their own.  The call is not counted in
\* tasks and spawned.  When it returns or raises its locals are reset; what
\* it did to its files stays.
file_path == CHOOSE p \in Paths : TRUE

\* config.py reads the filter bounds from AGE_MIN and AGE_MAX.
AgeRanges == {<<age_min, age_max>>, <<20, 30>>}

\* A cell that holds text, not a number.
TextCell == -1

\* The values of a frame's rows.  A row is represented by its value in the
\* 'age' column when the frame has one, and by its value in its other
\* column when it has none.
Ages == {15, 18, 25, 40, 41, TextCell}
ColumnSets == {{"age", "name"}, {"name"}}
BoundedSeq(S, n) == UNION {[1..k -> S] : k \in 0..n}
Frames == [columns : ColumnSets, rows : BoundedSeq(Ages, MaxRows)]

\* The frames read_csv returns to the call that is followed: what becomes
\* of the call depends on whether the frame has rows and on whether its
\* 'age' column holds text.
WorkflowFrames == [columns : ColumnSets, rows : BoundedSeq(Ages, MaxFileRows)]

\* The file sizes stat() reports, and what a stat() call does: return a
\* size, raise FileNotFoundError, raise another OSError.
Sizes == 0..MaxSize
StatStatus == {"size", "missing", "oserror"}

\* The sizes a stat() call of each kind is drawn with: a call that raises
\* returns none.
SizesOf(st) == IF st = "size" THEN Sizes ELSE {0}

\* The timeout and the confirmation delay in polling intervals of 0.5 s.
TimeoutPolls == timeout * PollsPerSecond
ConfirmPolls == ConfirmSeconds * PollsPerSecond

\* The values of time.time() - start_time that are told apart, in whole
\* polling intervals.  The last test that does not time out reads at most
\* TimeoutPolls - 1, and the sleeps that follow it add ConfirmPolls + 1.
MinElapsed == 0 - MaxBack
MaxElapsed == TimeoutPolls + ConfirmPolls + MaxLate

\* Variables no step of the call assigns.
outsideVars == <<now, max_concurrent_files, tasks, spawned,
                 last_log_upload_time, schedVars, runVars,
                 storeVars,
                 age_range>>

\* The locals of the call: those of wait_for_file_stable and the two frames.
localVars == <<last_size, current_size, seen, stable, frameVars>>

\* The call returns or raises out of process_file: its locals are gone.
LocalsGone ==
    /\ last_size' = -1
    /\ current_size' = -1
    /\ seen' = NothingSeen
    /\ stable' = "pending"
    /\ df' = NoFrame
    /\ filtered_df' = NoFrame

\* The call goes on to position pc after logging n lines.
WfContinue(pc, n) ==
    /\ wf_pc' = pc
    /\ log_empty' = Logged(n)
    /\ UNCHANGED <<semaphore, processing_files, last_exit, logs_accumulated,
                   raised_in_flush>>

\* The call leaves the try block: finally clause, release of the slot.
WfExit(kind, dirty, n) ==
    /\ wf_pc' = "done"
    /\ raised_in_flush' =
            (raised_in_flush \/ (schedPc = "uploading" /\ SetsDirty(kind)))
    /\ processing_files' = Finally(processing_files, file_path)
    /\ semaphore' = Release(semaphore)
    /\ last_exit' = kind
    /\ logs_accumulated' = dirty
    /\ log_empty' = Logged(n)
    /\ LocalsGone

\* `return` inside the try block.
WfReturn(kind) ==
    /\ WfExit(kind, logs_accumulated, 0)
    /\ error_logged' = error_logged

\* The `except Exception` clause, reached after n lines were logged.
WfExcept(n) ==
    /\ WfExit("error", TRUE, n + 1)
    /\ error_logged' = TRUE

\* handle_changes creates the task for an added file.
CreateTask ==
    /\ runPc = "watching"
    /\ wf_pc = "none"
    /\ wf_pc' = "created"
    /\ log_empty' = Logged(1)
    /\ UNCHANGED <<semaphore, processing_files, last_exit, logs_accumulated,
                   raised_in_flush, error_logged, waitVars, frameVars,
                   fileVars, outsideVars>>

\* The call is suspended at an await: at the semaphore (or not yet started),
\* in one of the sleeps of wait_for_file_stable, or in upload_file.  The
\* other positions are passed without suspending.
Suspended ==
    \/ wf_pc \in {"created", "confirm", "upload"}
    \/ wf_pc = "poll" /\ last_size # -1

\* The call is running: it holds the event loop until its next await, and
\* nothing else of the pipeline runs meanwhile.
Running == wf_pc \notin {"none", "done"} /\ ~Suspended

\* The event loop resumes the call with the result it awaited, which it does
\* until asyncio.run has cancelled it; a call under way runs on to its next
\* await.
Resumable == Suspended => ~tasks_cancelled

\* process_file up to the call of wait_for_file_stable, and the first two
\* lines of that function.
ProcessFileBegin ==
    /\ wf_pc = "created"
    /\ Resumable
    /\ ~Locked(semaphore)
    /\ IF IsDuplicate(processing_files, file_path)
       THEN /\ wf_pc' = "done"
            /\ semaphore' = Release(Acquire(semaphore))
            /\ last_exit' = "duplicate"
            /\ processing_files' =
                    DuplicateReturn(processing_files, file_path)
            /\ UNCHANGED log_empty
       ELSE /\ wf_pc' = "poll"
            /\ semaphore' = Acquire(semaphore)
            /\ processing_files' = AddPath(processing_files, file_path)
            /\ log_empty' = Logged(1)
            /\ UNCHANGED last_exit
    /\ last_size' = -1
    /\ UNCHANGED <<logs_accumulated, raised_in_flush, error_logged,
                   clockVars, current_size, seen, stable, frameVars,
                   fileVars, outsideVars>>

\* Mutant of StableCandidate: a size of zero is accepted.
StableCandidateZero(cur, last) == cur = last

\* `if current_size > 0 and current_size == last_size`.
StableCandidate(cur, last) == cur > 0 /\ cur = last

\* Mutant of StatRaised: every error of stat() is taken for a missing file.
StatRaisedCaught(st) == FALSE

\* stat() raised an exception that `except FileNotFoundError` does not catch.
StatRaised(st) == st = "oserror"

\* wait_for_file_stable returns True: its locals are gone, what stat()
\* returned last stays on record in `seen`.
WaitReturns ==
    /\ last_size' = -1
    /\ current_size' = -1

\* One pass of the while loop: the test of the timeout, stat(), the
\* comparison with last_size, up to the sleep that follows.  The test reads
\* the wall clock, which the pipeline does not set: whether the timeout has
\* expired is an input of the pass, except at the first test, which follows
\* the reading of start_time at once.  A False returned or an exception
\* raised ends the call.
Poll(st, sz, expired) ==
    /\ wf_pc = "poll"
    /\ Resumable
    /\ last_size = -1 => ~expired
    /\ IF expired
       THEN WfReturn("unstable")
       ELSE IF StatRaised(st)
       THEN WfExcept(0)
       ELSE IF st # "size"
       THEN WfReturn("unstable")
       ELSE /\ seen' = [prev |-> seen.cur, cur |-> sz, reread |-> -1,
                        status |-> st]
            /\ current_size' = sz
            /\ error_logged' = error_logged
            /\ UNCHANGED <<stable, frameVars>>
            /\ IF StableCandidate(sz, last_size)
               THEN /\ WfContinue("confirm", 0)
                    /\ UNCHANGED last_size
               ELSE /\ WfContinue("poll", 0)
                    /\ last_size' = sz
    /\ UNCHANGED <<clockVars, fileVars, outsideVars>>

\* asyncio.sleep(2) is over: the re-read and the comparison with
\* current_size; when they differ the loop goes on.
Confirm(st, sz) ==
    /\ wf_pc = "confirm"
    /\ Resumable
    /\ IF StatRaised(st)
       THEN WfExcept(0)
       ELSE IF st # "size"
       THEN WfReturn("unstable")
       ELSE /\ seen' = [seen EXCEPT !.reread = sz, !.status = st]
            /\ error_logged' = error_logged
            /\ UNCHANGED frameVars
            /\ IF sz = current_size
               THEN /\ stable' = "true"
                    /\ WfContinue("read", 0)
                    /\ WaitReturns
               ELSE /\ stable' = stable
                    /\ WfContinue("poll", 0)
                    /\ current_size' = current_size
                    /\ last_size' = current_size
    /\ UNCHANGED <<clockVars, fileVars, outsideVars>>

\* pd.read_csv returns a frame or raises.
ReadCsv(frame, ok) ==
    /\ wf_pc = "read"
    /\ IF ok
       THEN /\ df' = frame
            /\ WfContinue("loaded", 0)
            /\ error_logged' = error_logged
            /\ UNCHANGED <<last_size, current_size, seen, stable,
                           filtered_df>>
       ELSE WfExcept(0)
    /\ UNCHANGED <<clockVars, fileVars, outsideVars>>

\* Mutant of IsEmpty: the test is dropped.
IsEmptyNever(frame) == FALSE

\* df.empty
IsEmpty(frame) == frame.rows = <<>>

\* `if df.empty: return`
CheckEmpty ==
    /\ wf_pc = "loaded"
    /\ IF IsEmpty(df)
       THEN WfReturn("empty")
       ELSE /\ WfContinue("filter", 0)
            /\ error_logged' = error_logged
            /\ UNCHANGED localVars
    /\ UNCHANGED <<clockVars, fileVars, outsideVars>>

\* The row test of filter_data.
InAgeRange(v) == (v >= age_min) /\ (v <= age_max)

\* Mutant of filter_data: the test for the column is dropped.
filter_data_unguarded(frame) ==
    [frame EXCEPT !.rows = SelectSeq(@, InAgeRange)]

\* filter_data: the frame itself when it has no 'age' column, otherwise
\* its rows with 18 <= age <= 40, in order.
filter_data(frame) ==
    IF "age" \notin frame.columns
    THEN frame
    ELSE [frame EXCEPT !.rows = SelectSeq(@, InAgeRange)]

\* df['age'] >= 18 raises TypeError when the 'age' column holds text; a
\* frame without the column is returned before any comparison.
FilterRaises(frame) ==
    /\ "age" \in frame.columns
    /\ \E i \in 1..Len(frame.rows) : frame.rows[i] = TextCell

\* filtered_df = self.filter_data(df), inside the try block.
FilterData ==
    /\ wf_pc = "filter"
    /\ IF FilterRaises(df)
       THEN WfExcept(0)
       ELSE /\ filtered_df' = filter_data(df)
            /\ WfContinue("stage", 0)
            /\ error_logged' = error_logged
            /\ UNCHANGED <<last_size, current_size, seen, stable, df>>
    /\ UNCHANGED <<clockVars, fileVars, outsideVars>>

\* save_temp_file writes the staging file or raises.
SaveTempFile(ok) ==
    /\ wf_pc = "stage"
    /\ IF ok
       THEN /\ temp_file' = "written"
            /\ WfContinue("upload", 0)
            /\ error_logged' = error_logged
            /\ UNCHANGED localVars
       ELSE /\ temp_file' = temp_file
            /\ WfExcept(0)
    /\ UNCHANGED <<clockVars, s3_object, source_at, outsideVars>>

\* Mutant of UploadFailed: the error is logged and not raised again.
UploadFailedSwallowed ==
    /\ WfContinue("archive", 1)
    /\ error_logged' = TRUE
    /\ UNCHANGED localVars

\* upload_to_minio failed: it logs the error and raises it again.
UploadFailed == WfExcept(1)

\* upload_to_minio stores the object, or fails.
UploadToMinio(ok) ==
    /\ wf_pc = "upload"
    /\ Resumable
    /\ IF ok
       THEN /\ s3_object' = "stored"
            /\ WfContinue("archive", 0)
            /\ error_logged' = error_logged
            /\ UNCHANGED localVars
       ELSE /\ s3_object' = s3_object
            /\ UploadFailed
    /\ UNCHANGED <<clockVars, temp_file, source_at, outsideVars>>

\* Mutant of ArchiveFailed: the error reaches process_file.
ArchiveFailedRaised == WfExcept(0)

\* archive_source_file failed: it logs the error and returns.
ArchiveFailed ==
    /\ WfContinue("unlink", 1)
    /\ error_logged' = TRUE
    /\ UNCHANGED localVars

\* archive_source_file moves the source into the archive folder, or fails.
ArchiveSourceFile(ok) ==
    /\ wf_pc = "archive"
    /\ IF ok
       THEN /\ source_at' = "archive"
            /\ WfContinue("unlink", 0)
            /\ error_logged' = error_logged
            /\ UNCHANGED localVars
       ELSE /\ source_at' = source_at
            /\ ArchiveFailed
    /\ UNCHANGED <<clockVars, temp_file, s3_object, outsideVars>>

\* temp_file.unlink(), then the success line and logs_accumulated.
Unlink(ok) ==
    /\ wf_pc = "unlink"
    /\ IF ok
       THEN /\ temp_file' = "deleted"
            /\ WfExit("ok", TRUE, 1)
            /\ error_logged' = error_logged
       ELSE /\ temp_file' = temp_file
            /\ WfExcept(0)
    /\ UNCHANGED <<clockVars, s3_object, source_at, outsideVars>>

\* asyncio.run has cancelled the call: CancelledError is raised at the
\* await it is suspended in.  No except clause catches it; the finally
\* clause and the release of the slot run when the call holds one.  An
\* upload_file under way may or may not have reached the store (delivered).
WfCancel(delivered) ==
    /\ tasks_cancelled
    /\ Suspended
    /\ delivered => wf_pc = "upload"
    /\ IF wf_pc = "created"
       THEN /\ wf_pc' = "done"
            /\ last_exit' = "cancelled"
            /\ UNCHANGED <<semaphore, processing_files, logs_accumulated,
                           log_empty, raised_in_flush, localVars>>
       ELSE WfExit("cancelled", logs_accumulated, 0)
    /\ s3_object' = IF delivered THEN "stored" ELSE s3_object
    /\ UNCHANGED <<error_logged, clockVars, temp_file, source_at,
                   outsideVars>>

InitWorkflow == Init

\* Every step of Next beside the steps of the call.  The tasks of other
\* add-events are the anonymous tasks of Next; handle_changes creates up to
\* MaxOtherTasks of them.  The event loop runs one coroutine at a time:
\* while the call is running, between two awaits, no other step is taken.
NextWorkflow ==
    \/ ~Running /\ Advance
    \/ \E batch \in SUBSET (Changes \X Paths) :
            ~Running /\ HandleChanges(batch) /\ spawned' <= MaxOtherTasks
    \/ \E kind \in {"error", "end", "cancel"} : ~Running /\ StopWatching(kind)
    \/ \E p \in Paths : ~Running /\ TaskStart(p)
    \/ \E p \in Paths, res \in StableOutcomes : ~Running /\ TaskStable(p, res)
    \/ \E p \in Paths, res \in UploadOutcomes : ~Running /\ TaskUpload(p, res)
    \/ \E p \in Paths, pc \in TaskPcs : ~Running /\ TaskCancel(p, pc)
    \/ ~Running /\ CancelAllTasks
    \/ ~Running /\ SchedTick
    \/ \E res \in LogUploadOutcomes : ~Running /\ SchedUploadDone(res)
    \/ \E delivered \in BOOLEAN : ~Running /\ SchedCancelled(delivered)
    \/ \E res \in FinalUploadOutcomes : ~Running /\ FinalUploadDone(res)
    \/ \E conn, bucket, folders \in BOOLEAN : Startup(conn, bucket, folders)
    \/ CreateTask
    \/ ProcessFileBegin
    \/ \E st \in StatStatus : \E sz \in SizesOf(st) :
            \E expired \in BOOLEAN : Poll(st, sz, expired)
    \/ \E st \in StatStatus : \E sz \in SizesOf(st) : Confirm(st, sz)
    \/ \E frame \in WorkflowFrames, ok \in BOOLEAN : ReadCsv(frame, ok)
    \/ CheckEmpty
    \/ FilterData
    \/ \E ok \in BOOLEAN : SaveTempFile(ok)
    \/ \E ok \in BOOLEAN : UploadToMinio(ok)
    \/ \E ok \in BOOLEAN : ArchiveSourceFile(ok)
    \/ \E ok \in BOOLEAN : Unlink(ok)
    \/ \E delivered \in BOOLEAN : WfCancel(delivered)

SpecWorkflow == InitWorkflow /\ [][NextWorkflow]_vars

TypeOKWorkflow ==
    /\ age_range \in AgeRanges
    /\ wf_pc \in {"none", "created", "poll", "confirm", "read", "loaded",
                  "filter",
                  "stage", "upload", "archive", "unlink", "done",
                  "call_filter", "returned", "raised",
                  "wait_test", "wait_confirm", "cancelled"}
    /\ elapsed \in MinElapsed..MaxElapsed
    /\ clock_steps \in 0..MaxClockSteps
    /\ last_size \in Sizes \cup {-1}
    /\ current_size \in Sizes \cup {-1}
    /\ seen \in [prev : Sizes \cup {-1}, cur : Sizes \cup {-1},
                 reread : Sizes \cup {-1}, status : StatStatus \cup {"none"}]
    /\ stable \in {"pending", "true", "false", "raised"}
    /\ df \in Frames \cup {NoFrame}
    /\ filtered_df \in Frames \cup {NoFrame}
    /\ temp_file \in {"absent", "written", "deleted"}
    /\ s3_object \in {"absent", "stored"}
    /\ source_at \in {"input", "archive"}
    /\ error_logged \in BOOLEAN

\* ===================================================== filter_data alone
\* filter_data is a method without side effects: the specification below
\* calls it once on a constructed pipeline, for every frame and every pair
\* of configured bounds.
InitFilter ==
    /\ Constructed
    /\ age_range \in AgeRanges
    /\ wf_pc = "call_filter"
    /\ df \in Frames
    /\ filtered_df = NoFrame
    /\ elapsed = 0
    /\ clock_steps = 0
    /\ last_size = -1
    /\ current_size = -1
    /\ seen = NothingSeen
    /\ stable = "pending"
    /\ temp_file = "absent"
    /\ s3_object = "absent"
    /\ source_at = "input"
    /\ error_logged = FALSE

\* self.filter_data(df) returns a frame or raises.
ApplyFilter ==
    /\ wf_pc = "call_filter"
    /\ IF FilterRaises(df)
       THEN /\ wf_pc' = "raised"
            /\ filtered_df' = filtered_df
       ELSE /\ wf_pc' = "returned"
            /\ filtered_df' = filter_data(df)
    /\ UNCHANGED <<semaphore, processing_files, last_exit, logs_accumulated,
                   raised_in_flush, log_empty, error_logged, waitVars, df,
                   fileVars, outsideVars>>

NextFilter == ApplyFilter

SpecFilter == InitFilter /\ [][NextFilter]_vars

\* ============================================ wait_for_file_stable alone
\* wait_for_file_stable assigns no field of the pipeline.  The
\* specification below follows one call of it with the clock it reads: its
\* inputs are what stat() returns, what time.time() reads at each test of
\* the loop, and the cancellation of the task it runs in.
InitWait ==
    /\ Constructed
    /\ age_range = <<age_min, age_max>>
    /\ wf_pc = "wait_test"
    /\ elapsed = 0
    /\ clock_steps = 0
    /\ last_size = -1
    /\ current_size = -1
    /\ seen = NothingSeen
    /\ stable = "pending"
    /\ df = NoFrame
    /\ filtered_df = NoFrame
    /\ temp_file = "absent"
    /\ s3_object = "absent"
    /\ source_at = "input"
    /\ error_logged = FALSE

\* The loop test reads e.  The first test follows the reading of
\* start_time at once.  A later test comes after the sleeps made since the
\* test before it: asyncio.sleep ends at its deadline or later, so on a
\* steady clock e is at least elapsed; a smaller value is read when the
\* wall clock was set back in between.
ClockReads(e) ==
    IF last_size = -1
    THEN /\ e = 0
         /\ clock_steps' = clock_steps
    ELSE \/ /\ e >= elapsed
            /\ clock_steps' = clock_steps
         \/ /\ e < elapsed
            /\ clock_steps < MaxClockSteps
            /\ clock_steps' = clock_steps + 1

\* The negation of the loop condition time.time() - start_time < timeout.
TimedOut(e) == ~(e < TimeoutPolls)

\* One pass of the while loop, from its test to the sleep that follows, or
\* to the return.
WaitTest(st, sz, e) ==
    /\ wf_pc = "wait_test"
    /\ ClockReads(e)
    /\ IF TimedOut(e)
       THEN /\ stable' = "false"
            /\ wf_pc' = "returned"
            /\ elapsed' = e
            /\ UNCHANGED <<last_size, current_size, seen>>
       ELSE /\ seen' = [prev |-> seen.cur,
                        cur |-> IF st = "size" THEN sz ELSE -1,
                        reread |-> -1,
                        status |-> st]
            /\ IF StatRaised(st)
               THEN /\ stable' = "raised"
                    /\ wf_pc' = "raised"
                    /\ elapsed' = e
                    /\ UNCHANGED <<last_size, current_size>>
               ELSE IF st # "size"
               THEN /\ stable' = "false"
                    /\ wf_pc' = "returned"
                    /\ elapsed' = e
                    /\ UNCHANGED <<last_size, current_size>>
               ELSE /\ current_size' = sz
                    /\ stable' = stable
                    /\ IF StableCandidate(sz, last_size)
                       THEN /\ wf_pc' = "wait_confirm"
                            /\ elapsed' = e + ConfirmPolls
                            /\ UNCHANGED last_size
                       ELSE /\ wf_pc' = "wait_test"
                            /\ elapsed' = e + 1
                            /\ last_size' = sz
    /\ UNCHANGED <<semaphore, processing_files, last_exit, logs_accumulated,
                   raised_in_flush, log_empty, error_logged, frameVars,
                   fileVars, outsideVars>>

\* asyncio.sleep(2) is over: the re-read and the comparison with
\* current_size; when they differ the function sleeps and the loop goes on.
WaitConfirm(st, sz) ==
    /\ wf_pc = "wait_confirm"
    /\ seen' = [seen EXCEPT !.reread = IF st = "size" THEN sz ELSE -1,
                            !.status = st]
    /\ IF StatRaised(st)
       THEN /\ stable' = "raised"
            /\ wf_pc' = "raised"
            /\ UNCHANGED <<elapsed, last_size>>
       ELSE IF st # "size"
       THEN /\ stable' = "false"
            /\ wf_pc' = "returned"
            /\ UNCHANGED <<elapsed, last_size>>
       ELSE IF sz = current_size
       THEN /\ stable' = "true"
            /\ wf_pc' = "returned"
            /\ UNCHANGED <<elapsed, last_size>>
       ELSE /\ stable' = stable
            /\ wf_pc' = "wait_test"
            /\ last_size' = current_size
            /\ elapsed' = elapsed + 1
    /\ UNCHANGED <<semaphore, processing_files, last_exit, logs_accumulated,
                   raised_in_flush, log_empty, error_logged, clock_steps,
                   current_size, frameVars, fileVars, outsideVars>>

\* The function is suspended in one of its two sleeps.
Asleep ==
    \/ wf_pc = "wait_confirm"
    \/ wf_pc = "wait_test" /\ last_size # -1

\* The task is cancelled: CancelledError is raised at the sleep and leaves
\* the function, which catches only FileNotFoundError.
WaitCancelled ==
    /\ Asleep
    /\ wf_pc' = "cancelled"
    /\ UNCHANGED <<semaphore, processing_files, last_exit, logs_accumulated,
                   raised_in_flush, log_empty, error_logged, waitVars,
                   frameVars, fileVars, outsideVars>>

\* The steps of the function.
WaitStep ==
    \/ \E st \in StatStatus : \E sz \in SizesOf(st) :
            \E e \in MinElapsed..MaxElapsed : WaitTest(st, sz, e)
    \/ \E st \in StatStatus : \E sz \in SizesOf(st) : WaitConfirm(st, sz)
    \/ WaitCancelled

NextWait ==
    \/ \E st \in StatStatus : \E sz \in SizesOf(st) :
            \E e \in MinElapsed..MaxElapsed : WaitTest(st, sz, e)
    \/ \E st \in StatStatus : \E sz \in SizesOf(st) : WaitConfirm(st, sz)
    \/ WaitCancelled

SpecWait == InitWait /\ [][NextWait]_vars

\* stat() returns, asyncio.sleep ends, and the event loop resumes the
\* task.
FairSpecWait == SpecWait /\ WF_vars(WaitStep)

\* ================================================================ claims
\* A task leaves process_file in this step after holding a slot.
ExitStep == ActiveCount' = ActiveCount - 1

\* C1: in every reachable state processing_files holds at most K paths and
\* at most K workflows are between slot acquisition and slot release; with
\* K = 1 at most one workflow is inside its critical section.
C1_AtMostKInFlight ==
    /\ Cardinality(processing_files) <= max_concurrent_files
    /\ ActiveCount <= max_concurrent_files
    /\ max_concurrent_files = 1 => ActiveCount <= 1

\* C1 witness: all K slots are taken, K paths are in flight and a further
\* task is suspended at the semaphore.
C1_Witness ==
    /\ ActiveCount = max_concurrent_files
    /\ Cardinality(processing_files) = max_concurrent_files
    /\ max_concurrent_files = MaxK
    /\ WaitingCount > 0

\* C2: at no instant are two workflows for the same path both between the
\* insertion of that path into processing_files and its removal.
C2_NoPathInFlightTwice == \A p \in Paths : ActiveOn(p) <= 1

\* C2 witness: a path is in flight, a slot is free, a repeated add-event for
\* that path has just been turned away as a duplicate and another one for it
\* is still waiting.
C2_Witness ==
    \E p \in Paths :
        /\ ActiveOn(p) = 1
        /\ processing_files = {p}
        /\ ~Locked(semaphore)
        /\ last_exit = "duplicate"
        /\ tasks[p].waiting > 0

\* C3: whenever a workflow that inserted its path has exited (success, early
\* abort, error), its path is out of processing_files and its slot is
\* released: processing_files holds exactly the paths of the workflows still
\* inside, the semaphore counts exactly the slots they hold, and with no
\* workflow active processing_files is empty and all K slots are free.
C3_CleanupOnEveryExit ==
    /\ processing_files = {p \in Paths : ActiveOn(p) > 0}
    /\ semaphore = max_concurrent_files - ActiveCount
    /\ ActiveCount = 0 => processing_files = {} /\ semaphore = max_concurrent_files

\* C3 witness: tasks were spawned, the last one left by an early abort, and
\* nothing is in flight any more while the watcher still runs.
C3_Witness ==
    /\ spawned = MaxTasks
    /\ last_exit \in {"unstable", "empty"}
    /\ ActiveCount = 0
    /\ WaitingCount = 0
    /\ processing_files = {}
    /\ semaphore = max_concurrent_files
    /\ runPc = "watching"

\* A workflow of path p leaves process_file in this step because of an
\* exception raised in its steps 3-9.
ErrorExitOf(p) ==
    /\ ActiveOn(p)' = ActiveOn(p) - 1
    /\ last_exit' \in {"error", "raised"}

\* C4: an exception raised in steps 3-9 of one file's workflow is caught in
\* that file's task: the task ends normally, run() and the watcher stay where
\* they are, the background task is not touched, no task is created (no
\* retry), every other pending task keeps its position, and the shared
\* processing_files and semaphore change exactly as on a normal exit.
C4_FailureContained ==
    [][\A p \in Paths :
        ErrorExitOf(p) =>
            /\ last_exit' = "error"
            /\ UNCHANGED <<runPc, cancelled, final_uploads>>
            /\ UNCHANGED <<schedPc, sleep_until, current_time>>
            /\ UNCHANGED <<spawned, max_concurrent_files>>
            /\ tasks'[p].waiting = tasks[p].waiting
            /\ \A q \in Paths \ {p} : tasks'[q] = tasks[q]
            /\ processing_files' = processing_files \ {p}
            /\ semaphore' = semaphore + 1]_vars

\* C4 witness: a workflow has just ended on a caught error while another
\* workflow is in flight, a further task waits and the watcher still runs.
C4_Witness ==
    /\ last_exit = "error"
    /\ ActiveCount > 0
    /\ WaitingCount > 0
    /\ runPc = "watching"
    /\ schedPc = "sleeping"

\* C5 (as claimed): every workflow that inserted its path leaves with
\* logs_accumulated set, on the success path, on the early-abort paths and
\* on the error path.
C5_DirtyOnEveryExit ==
    [][(ExitStep /\ last_exit' \in {"ok", "unstable", "empty", "error"})
        => logs_accumulated']_vars

\* A tick of the background task: its sleep is over and it runs
\* check_and_upload_logs.
TickStep ==
    /\ schedPc = "sleeping"
    /\ ~cancelled
    /\ schedPc' = "uploading" \/ sleep_until' # sleep_until

\* The scheduled flush begins (the tick suspends in put_object) / ends
\* (upload_log_file has returned and the loop sleeps again).
FlushBegins == schedPc = "sleeping" /\ schedPc' = "uploading"
FlushEnds == schedPc = "uploading" /\ schedPc' = "sleeping"

\* C6: a tick performs a flush iff (now - last_log_upload_time) >= interval
\* and logs_accumulated; when the flush has been performed logs_accumulated
\* is false and last_log_upload_time is the time read by that tick; a tick
\* at which the condition is false uploads nothing, truncates nothing and
\* leaves both fields as they are; nothing but a flush puts or truncates the
\* log while run() is watching.
C6_FlushIffDueAndDirty ==
    [][/\ TickStep =>
            /\ FlushBegins <=>
                 (now - last_log_upload_time >= log_upload_interval
                  /\ logs_accumulated)
            /\ FlushBegins => current_time' = now
            /\ UNCHANGED <<logs_accumulated, last_log_upload_time,
                           log_puts, log_truncations>>
            /\ ~FlushBegins => UNCHANGED log_empty
       /\ FlushEnds =>
            /\ logs_accumulated' = FALSE
            /\ last_log_upload_time' = current_time
       /\ (runPc = "watching" /\ ~FlushEnds) =>
            UNCHANGED <<log_puts, log_truncations, last_log_upload_time>>
      ]_vars

\* C6 witness: a scheduled flush has been performed: the log was put and
\* truncated, logs_accumulated is false and last_log_upload_time is the time
\* of a tick at least one interval after construction.
C6_Witness ==
    /\ schedPc = "sleeping"
    /\ runPc = "watching"
    /\ log_puts = 1
    /\ log_truncations = 1
    /\ ~logs_accumulated
    /\ last_log_upload_time >= log_upload_interval

\* C7 (as claimed): when the upload of a scheduled flush fails,
\* logs_accumulated stays true and last_log_upload_time keeps its value.
C7_ResetOnlyOnSuccess ==
    [][(FlushEnds /\ log_puts' = log_puts) =>
            /\ logs_accumulated'
            /\ UNCHANGED last_log_upload_time]_vars

\* An upload_log_file call ends in this step: the scheduled one (returns, or
\* is cancelled) or the final one.
UploadEnds ==
    \/ schedPc = "uploading" /\ schedPc' # "uploading"
    \/ runPc = "final_upload" /\ runPc' # "final_upload"

\* C8: the local log is truncated only by an upload_log_file call whose
\* put_object has just succeeded, and an upload that fails or is cancelled
\* truncates nothing: the lines the file held are still there.
C8_TruncateOnlyAfterPut ==
    [][/\ log_truncations' # log_truncations =>
            /\ UploadEnds
            /\ log_truncations' = log_truncations + 1
            /\ log_puts' = log_puts + 1
       /\ (log_empty' /\ ~log_empty) => log_truncations' # log_truncations
       /\ (UploadEnds /\ log_puts' = log_puts) =>
            /\ log_truncations' = log_truncations
            /\ ~log_empty'
       /\ (schedPc = "uploading" /\ schedPc' = "stopped") =>
            UNCHANGED <<log_empty, log_truncations>>]_vars

\* C8 witness: one upload has failed and left the log in place, another has
\* succeeded and truncated it.
C8_Witness ==
    /\ log_truncations = 1
    /\ log_puts = 1
    /\ runPc = "ended"
    /\ final_uploads = 1
    /\ last_log_upload_time >= log_upload_interval

\* run() leaves monitor_folder in this step.
StopStep == runPc = "watching" /\ runPc' # "watching"

\* C9: when the pipeline stops after watching has started, the final upload
\* is attempted exactly once if logs_accumulated is true at that point, also
\* when the stop interrupts a scheduled flush that is still uploading, and
\* not at all if it is false; run() ends only after the final upload has
\* returned, and no final upload is begun at any other step.
C9_FinalFlushAtShutdown ==
    [][/\ StopStep =>
            /\ cancelled'
            /\ logs_accumulated =>
                 runPc' = "final_upload" /\ final_uploads' = final_uploads + 1
            /\ ~logs_accumulated =>
                 runPc' = "ended" /\ final_uploads' = final_uploads
            /\ schedPc = "uploading" =>
                 runPc' = "final_upload" /\ final_uploads' = 1
       /\ ~StopStep => final_uploads' = final_uploads
       /\ runPc' = "final_upload" => final_uploads' = 1
       /\ (runPc = "final_upload" /\ runPc' # runPc) => runPc' = "ended"
      ]_vars

\* C9 witness: the stop has interrupted a scheduled flush that was still
\* uploading; the final upload is under way.
C9_Witness ==
    /\ runPc = "final_upload"
    /\ schedPc = "uploading"
    /\ cancelled
    /\ final_uploads = 1
    /\ logs_accumulated

\* ------------------------------------------- the flush-interval scenario
\* The scenario of C10: the pipeline is started at t = 0 (run() reaches the
\* watcher without the clock moving) and, before any flush,
\* logs_accumulated is first set at t = 5 s.
InScenario ==
    /\ runPc = "start" => now' = now
    /\ (~logs_accumulated /\ logs_accumulated' /\ log_puts = 0
            /\ last_log_upload_time = 0) => now = 5

ScenarioNext ==
    \/ Advance /\ InScenario
    \/ \E conn, bucket, folders \in BOOLEAN :
            Startup(conn, bucket, folders) /\ InScenario
    \/ \E batch \in SUBSET (Changes \X Paths) :
            HandleChanges(batch) /\ InScenario
    \/ \E kind \in {"error", "end", "cancel"} :
            StopWatching(kind) /\ InScenario
    \/ \E p \in Paths : TaskStart(p) /\ InScenario
    \/ \E p \in Paths, res \in StableOutcomes :
            TaskStable(p, res) /\ InScenario
    \/ \E p \in Paths, res \in UploadOutcomes :
            TaskUpload(p, res) /\ InScenario
    \/ CancelAllTasks /\ InScenario
    \/ \E p \in Paths, pc \in TaskPcs : TaskCancel(p, pc) /\ InScenario
    \/ SchedTick /\ InScenario
    \/ \E res \in LogUploadOutcomes : SchedUploadDone(res) /\ InScenario
    \/ \E delivered \in BOOLEAN : SchedCancelled(delivered) /\ InScenario
    \/ \E res \in FinalUploadOutcomes : FinalUploadDone(res) /\ InScenario

SpecScenario == Init /\ [][ScenarioNext]_vars

\* C10 (as claimed): flush interval 60 s, started at t = 0,
\* logs_accumulated first set at t = 5 s: no flush fires before t = 65 s.
C10_NoFlushBefore65 == [][FlushBegins => now >= 65]_vars

\* C10 (amended): in that scenario no flush fires before t = 60 s, one
\* interval after construction; the first tick at or after t = 60 s that
\* finds logs_accumulated set performs the flush, and the flush resets
\* logs_accumulated and sets last_log_upload_time to the time of that tick.
C10_FirstFlushAt60 ==
    [][/\ FlushBegins => now >= log_upload_interval /\ current_time' = now
       /\ (TickStep /\ logs_accumulated /\ last_log_upload_time = 0
               /\ now >= log_upload_interval) => FlushBegins
       /\ (TickStep /\ now < log_upload_interval) => ~FlushBegins
       /\ FlushEnds =>
            /\ logs_accumulated' = FALSE
            /\ last_log_upload_time' = current_time
            /\ current_time >= log_upload_interval]_vars

\* C10 witness: logs_accumulated was set at t = 5 s, the tick at t = 60 s
\* has flushed and the two fields are reset.
C10_Witness ==
    /\ last_log_upload_time = log_upload_interval
    /\ ~logs_accumulated
    /\ schedPc = "sleeping"
    /\ runPc = "watching"
    /\ log_puts = 1

\* ------------------------------------------------------------ filter_data
\* The row test with the bounds of the configuration.
InConfiguredRange(v) == (v >= age_range[1]) /\ (v <= age_range[2])

\* C11: when the frame has the filter column, then for every configured pair
\* of bounds and every list of rows the output of the filter is exactly the
\* rows with min <= age <= max, both bounds inclusive, in their order.
C11_FilterUsesConfiguredBounds ==
    (filtered_df # NoFrame /\ "age" \in df.columns) =>
        filtered_df = [df EXCEPT !.rows = SelectSeq(@, InConfiguredRange)]

\* C12: for every frame without an 'age' column, filter_data returns the
\* frame with all its rows unchanged, in their order, and raises no error,
\* whatever the rows hold.
C12_PassThroughWithoutColumn ==
    /\ [][(wf_pc = "call_filter" /\ "age" \notin df.columns) =>
            /\ filtered_df' = df
            /\ wf_pc' = "returned"
            /\ UNCHANGED <<df, error_logged, last_exit,
                           logs_accumulated>>]_vars
    /\ [](wf_pc = "raised" => "age" \in df.columns)

\* C12 witness: a frame without the 'age' column, with a row that holds
\* text and a row outside 18..40, has been returned unchanged.
C12_Witness ==
    /\ wf_pc = "returned"
    /\ "age" \notin df.columns
    /\ \E i \in DOMAIN df.rows : df.rows[i] = TextCell
    /\ \E i \in DOMAIN df.rows : df.rows[i] = 41
    /\ filtered_df = df

\* --------------------------------------------------- wait_for_file_stable
\* The call is in, or past, the steps that follow wait_for_file_stable.
Loaded == wf_pc \in {"read", "loaded", "filter", "stage", "upload", "archive",
                     "unlink"}
              \/ df # NoFrame

\* C13: wait_for_file_stable returns True only if two consecutive polls
\* returned the same nonzero size and the re-read after the confirmation
\* delay returned that size again; no call reaches read_csv before that; a
\* size of zero, or a size that differs from poll to poll, is never
\* reported stable.
C13_StableOnlyAfterConfirmedSize ==
    /\ stable = "true" =>
            /\ seen.status = "size"
            /\ seen.cur > 0
            /\ seen.prev = seen.cur
            /\ seen.reread = seen.cur
    /\ Loaded => stable = "true"

\* C13 witness: two polls and the re-read returned the largest size and the
\* file has then been read.
C13_Witness ==
    /\ stable = "true"
    /\ seen = [prev |-> MaxSize, cur |-> MaxSize, reread |-> MaxSize,
               status |-> "size"]
    /\ df # NoFrame

\* The call of wait_for_file_stable is under way.
Waiting == wf_pc \in {"wait_test", "wait_confirm"}

\* C19 (as claimed): wait_for_file_stable always terminates with a boolean:
\* False as soon as a size read finds the path missing, False when the
\* timeout has elapsed; it never raises and never loops forever.
C19_AlwaysReturnsBoolean ==
    /\ [](seen.status = "missing" => stable = "false")
    /\ [][(wf_pc = "wait_test" /\ TimedOut(elapsed) /\ wf_pc' # wf_pc) =>
            stable' = "false"]_vars
    /\ [](stable # "raised")
    /\ Waiting ~> (stable \in {"true", "false"})

\* C19 (amended): wait_for_file_stable always terminates: it returns False
\* as soon as a size read finds the path missing and False when the loop
\* test finds the timeout elapsed, and False in no other case; it raises
\* exactly when a size read fails with an error other than
\* FileNotFoundError; it is left by CancelledError, without a result, when
\* the task is cancelled in one of its sleeps; and it does not loop
\* forever: each pass that stays in the function puts the next test at
\* least one polling interval later unless the wall clock is set back.
C19_TerminatesOrStatRaises ==
    /\ [](seen.status = "missing" => stable = "false")
    /\ [][(wf_pc = "wait_test" /\ TimedOut(elapsed)
                /\ clock_steps' = clock_steps) =>
            \/ stable' = "false" /\ wf_pc' = "returned"
            \/ wf_pc' = "cancelled"]_vars
    /\ [](stable = "false" =>
            (seen.status = "missing" \/ TimedOut(elapsed)))
    /\ [](stable = "raised" <=> seen.status = "oserror")
    /\ [](wf_pc = "raised" <=> stable = "raised")
    /\ [](wf_pc = "returned" <=> stable \in {"true", "false"})
    /\ [][(Waiting /\ Waiting' /\ clock_steps' = clock_steps) =>
            elapsed' > elapsed]_vars
    /\ [](Waiting => elapsed <= MaxElapsed)
    /\ [][(wf_pc' = "cancelled" /\ wf_pc # "cancelled") =>
            (Asleep /\ stable' = "pending")]_vars
    /\ Waiting ~> ~Waiting

\* C19 witness: sizes that never settled were polled, the wall clock was
\* not set back, the loop test read the timeout and the function has
\* returned False.
C19_Witness ==
    /\ wf_pc = "returned"
    /\ stable = "false"
    /\ seen.status = "size"
    /\ elapsed = TimeoutPolls
    /\ clock_steps = 0

\* ------------------------------------------------------- startup of run()
\* run() has returned from one of its two startup checks: it has ended
\* without passing through its finally clause.
AbortedAtStartup == runPc = "ended" /\ ~cancelled

\* C14: if check_minio_connection fails, or ensure_bucket_exists can neither
\* verify nor create the bucket, run() ends without starting the watcher,
\* without starting the background log checker, without creating any
\* process_file task and without any upload; nothing is started afterwards.
C14_FatalStartupAborts ==
    /\ [][\A conn, bucket, folders \in BOOLEAN :
            (runPc = "start" /\ Startup(conn, bucket, folders)
                /\ (~conn \/ ~bucket)) =>
                /\ runPc' = "ended"
                /\ schedPc' = "unstarted"
                /\ ~cancelled'
                /\ spawned' = 0
                /\ log_puts' = 0
                /\ final_uploads' = 0]_vars
    /\ [](AbortedAtStartup =>
            /\ schedPc = "unstarted"
            /\ spawned = 0
            /\ ActiveCount = 0
            /\ WaitingCount = 0
            /\ processing_files = {}
            /\ log_puts = 0
            /\ final_uploads = 0
            /\ ~logs_accumulated)

\* C14 witness: run() has ended at a failed startup check; the background
\* task was never created and nothing was spawned or uploaded.
C14_Witness ==
    /\ AbortedAtStartup
    /\ schedPc = "unstarted"
    /\ spawned = 0
    /\ log_puts = 0
    /\ ~log_empty

\* --------------------------------------------------------- handle_changes
\* C15: handle_changes creates one task per add-event and returns without
\* waiting for a slot, also when K workflows are active: it leaves the
\* semaphore and the active workflows as they are, the new tasks are
\* suspended at the semaphore, and the watcher, still watching, can take
\* its next batch whatever the semaphore holds.
C15_WatcherNeverBlocks ==
    /\ [][spawned' > spawned =>
            /\ semaphore' = semaphore
            /\ processing_files' = processing_files
            /\ ActiveCount' = ActiveCount
            /\ WaitingCount' = WaitingCount + (spawned' - spawned)
            /\ runPc' = "watching"]_vars
    /\ []((runPc = "watching" /\ spawned < MaxTasks) =>
            ENABLED HandleChanges({<<"added", file_path>>}))

\* C15 witness: all K slots are taken, tasks created by the watcher are
\* suspended at the semaphore, and the watcher can take a further batch.
C15_Witness ==
    /\ Locked(semaphore)
    /\ ActiveCount = max_concurrent_files
    /\ WaitingCount > 0
    /\ spawned < MaxTasks
    /\ runPc = "watching"
    /\ ENABLED HandleChanges({<<"added", file_path>>})

\* ------------------------------------------------------ duplicate events
\* A step of a task (the watcher creates none in it) in which a task that
\* was suspended at the semaphore ends without becoming active and without
\* having been cancelled: it returned as a duplicate.
DuplicateStep ==
    /\ ~tasks_cancelled
    /\ spawned' = spawned
    /\ \E p \in Paths : tasks'[p].waiting < tasks[p].waiting
    /\ WaitingCount' = WaitingCount - 1
    /\ ActiveCount' = ActiveCount

\* C20: a task that finds its path already in processing_files releases its
\* slot and returns: processing_files is unchanged (the entry of the
\* running workflow stays), logs_accumulated is unchanged, nothing is
\* logged, and no stability wait, upload or archive is begun.
C20_DuplicateIsNoOp ==
    [][DuplicateStep =>
        /\ last_exit' = "duplicate"
        /\ semaphore' = semaphore
        /\ processing_files' = processing_files
        /\ logs_accumulated' = logs_accumulated
        /\ log_empty' = log_empty
        /\ UNCHANGED storeVars
        /\ \E p \in Paths :
            /\ tasks' = [tasks EXCEPT ![p].waiting = @ - 1]
            /\ p \in processing_files'
            /\ ActiveOn(p) = 1]_vars

\* C20 witness: a second add-event for a path in flight has been turned
\* away: the running workflow still holds its entry and its slot, no task
\* is left waiting and logs_accumulated is still False.
C20_Witness ==
    \E p \in Paths :
        /\ last_exit = "duplicate"
        /\ p \in processing_files
        /\ ActiveOn(p) = 1
        /\ semaphore = max_concurrent_files - 1
        /\ WaitingCount = 0
        /\ spawned = 2
        /\ ~logs_accumulated

\* ------------------------------------------- the steps after the filter
\* The call has passed `if df.empty: return`.
PastEmptyTest == wf_pc \in {"filter", "stage", "upload", "archive", "unlink"}

\* C16: when read_csv returns a frame without rows, the call ends at once:
\* no filtering, no staging file, no upload, no move to the archive, no
\* error logged; the source file stays in the input folder and the path and
\* the slot are given back.
C16_EmptyInputSkipped ==
    /\ [][(wf_pc = "loaded" /\ df.rows = <<>>) =>
            /\ wf_pc' = "done"
            /\ last_exit' = "empty"
            /\ temp_file' = "absent"
            /\ s3_object' = "absent"
            /\ source_at' = "input"
            /\ ~error_logged'
            /\ file_path \in processing_files
            /\ file_path \notin processing_files'
            /\ semaphore' = semaphore + 1
            /\ UNCHANGED <<logs_accumulated, log_empty>>]_vars
    /\ [](PastEmptyTest => df.rows # <<>>)

\* C16 witness: a file without rows was read and the call, the only one
\* there has been, has ended for that reason, the slot given back.
C16_Witness ==
    /\ wf_pc = "done"
    /\ spawned = 0
    /\ last_exit = "empty"
    /\ temp_file = "absent"
    /\ source_at = "input"
    /\ file_path \notin processing_files
    /\ semaphore = max_concurrent_files

\* archive_source_file fails in this step: the call leaves the archive
\* step with the source file still in the input folder.
ArchiveFails == wf_pc = "archive" /\ wf_pc' # "archive" /\ source_at' = "input"

\* C17: a failure of archive_source_file after a successful upload is not
\* raised: the call goes on to temp_file.unlink(), and when that succeeds it
\* ends normally with logs_accumulated set; the uploaded object stays in
\* the store and the source file stays in the input folder.
C17_ArchiveIsBestEffort ==
    /\ [][ArchiveFails =>
            /\ wf_pc' = "unlink"
            /\ last_exit' = last_exit
            /\ s3_object = "stored"
            /\ UNCHANGED <<s3_object, temp_file, processing_files,
                           semaphore>>]_vars
    /\ [][(wf_pc = "unlink" /\ temp_file' = "deleted") =>
            /\ last_exit' = "ok"
            /\ logs_accumulated'
            /\ UNCHANGED <<s3_object, source_at>>]_vars
    /\ [](wf_pc = "unlink" => (s3_object = "stored" /\ temp_file = "written"))

\* C17 witness: the upload succeeded, the move to the archive failed, and
\* the call has ended normally: staging file deleted, logs_accumulated set,
\* object stored, source file still in the input folder.
C17_Witness ==
    /\ wf_pc = "done"
    /\ last_exit = "ok"
    /\ source_at = "input"
    /\ s3_object = "stored"
    /\ temp_file = "deleted"
    /\ logs_accumulated
    /\ error_logged

\* C18: the source file is moved to the archive only after the upload has
\* succeeded, and the staging file is deleted only after the upload and the
\* archive step; when staging or the upload fails (or the call is cancelled
\* in the upload before the object is stored) the call ends with no move to
\* the archive and no deletion of the staging file, and the source file
\* remains in the input folder.
C18_StepsShortCircuit ==
    /\ [](source_at = "archive" => s3_object = "stored")
    /\ [](temp_file = "deleted" => (s3_object = "stored" /\ wf_pc = "done"))
    /\ [][(source_at' # source_at) => wf_pc = "archive"]_vars
    /\ [][(temp_file' = "deleted" /\ temp_file # "deleted") =>
                wf_pc = "unlink"]_vars
    /\ [][(wf_pc \in {"stage", "upload"} /\ wf_pc' # wf_pc
                /\ s3_object' = "absent" /\ temp_file' = temp_file) =>
            wf_pc' = "done"]_vars
    /\ [][(wf_pc \in {"stage", "upload"} /\ wf_pc' = "done") =>
            /\ last_exit' \in {"error", "cancelled"}
            /\ last_exit' = "cancelled" => (tasks_cancelled /\ wf_pc = "upload")
            /\ source_at' = "input"
            /\ temp_file' # "deleted"]_vars
    /\ []((wf_pc = "done" /\ s3_object = "absent") =>
            (source_at = "input" /\ temp_file # "deleted"))

\* C18 witness: the staging file was written, the upload failed and the
\* call, the only one there has been, has ended: nothing stored, nothing
\* archived, the staging file is still there.
C18_Witness ==
    /\ wf_pc = "done"
    /\ spawned = 0
    /\ last_exit = "error"
    /\ temp_file = "written"
    /\ s3_object = "absent"
    /\ source_at = "input"

\* ------------------------------------------- the flush and its neighbours
\* C21: if a workflow sets logs_accumulated while a scheduled flush is
\* suspended in its upload, logs_accumulated is still set when that flush
\* has completed: the reset of the flush does not overwrite a signal raised
\* after the flush began.
C21_NoLostDirtySignal ==
    [][(FlushEnds /\ raised_in_flush) => logs_accumulated']_vars

\* C22: no truncation of the local log removes a line that no upload
\* contained.
C22_NoLogLineLost == ~lines_lost

\* ---------------------------------------------------------------- liveness
\* No task is pending, processing_files is empty and all K slots are free.
Idle ==
    /\ WaitingCount = 0
    /\ ActiveCount = 0
    /\ processing_files = {}
    /\ semaphore = max_concurrent_files

\* C23 (as claimed): every task created for an add-event eventually
\* acquires a slot and exits: a task leaves the semaphore only by taking a
\* slot, none waits there forever, and once events stop arriving
\* processing_files becomes empty with all K slots free.
C23_EveryTaskAcquiresAndExits ==
    /\ [][WaitingCount' < WaitingCount =>
            (~Locked(semaphore) /\ ~tasks_cancelled)]_vars
    /\ <>[]Idle

\* C23 (amended): until asyncio.run cancels the pending tasks, a task
\* leaves the semaphore only by taking a slot; after run() has ended the
\* tasks still pending are cancelled, a waiting one without ever taking a
\* slot; in both cases no task waits forever and, once events stop
\* arriving, processing_files becomes empty with all K slots free.
C23_TasksExitOrAreCancelled ==
    /\ [][(WaitingCount' < WaitingCount /\ ~tasks_cancelled) =>
            ~Locked(semaphore)]_vars
    /\ [][(WaitingCount' < WaitingCount /\ tasks_cancelled) =>
            (last_exit' = "cancelled" /\ UNCHANGED <<semaphore,
                                                     processing_files>>)]_vars
    /\ <>[]Idle

\* C23 witness: more tasks than slots were created, all of them have left
\* and everything is free again.
C23_Witness ==
    /\ Idle
    /\ spawned = MaxTasks
    /\ max_concurrent_files < MaxTasks
    /\ runPc = "watching"
    /\ last_exit = "ok"

\* The last value the clock takes, and the time at which the next flush
\* becomes due.
Horizon == (MaxTime \div TimeStep) * TimeStep
DueTime == last_log_upload_time + log_upload_interval

\* logs_accumulated is set, run() is watching, the background task is in
\* its loop, and the clock goes on long enough for a tick at or after the
\* due time: the latest tick before the due time is one clock step before
\* it and the next one comes SleepSeconds later.
FlushPending ==
    /\ logs_accumulated
    /\ runPc = "watching"
    /\ schedPc = "sleeping"
    /\ ~cancelled
    /\ sleep_until <= Horizon
    /\ DueTime - TimeStep + SleepSeconds <= Horizon

\* C24: if logs_accumulated is set and the pipeline keeps running with the
\* ticks continuing, a tick eventually begins a flush (or run() reaches its
\* finally clause, which cancels the background task): logs_accumulated
\* does not stay set forever without a flush being attempted.  In every
\* flush cycle the next tick is at most SleepSeconds away, a tick at or
\* after the due time with logs_accumulated set begins the flush, and a
\* flush that ends, with or without an error, puts the task back to sleep
\* for SleepSeconds; within the horizon of the clock the flush is reached.
C24_EventualFlush ==
    /\ []((schedPc = "sleeping" /\ ~cancelled) =>
            sleep_until <= now + SleepSeconds)
    /\ [][(TickStep /\ logs_accumulated /\ now >= DueTime) =>
            schedPc' = "uploading"]_vars
    /\ [][(schedPc = "uploading" /\ schedPc' # "uploading" /\ ~cancelled) =>
            (schedPc' = "sleeping" /\ sleep_until' = now + SleepSeconds)]_vars
    /\ FlushPending ~> (schedPc = "uploading" \/ cancelled)

\* C24 witness: logs_accumulated was set before the interval had elapsed
\* and a later tick, at or after the due time, has begun the flush.
C24_Witness ==
    /\ schedPc = "uploading"
    /\ logs_accumulated
    /\ runPc = "watching"
    /\ current_time >= DueTime
    /\ log_puts = 0
    /\ Idle

====
